---- MODULE Spec2Model ----
(***************************************************************************)
(* hello-video-codec: bitstream reader/writer (src/bitstream.rs), the      *)
(* entropy and plane codec (src/codec.rs) and the frame framing            *)
(* (src/frame.rs).                                                         *)
(*                                                                         *)
(* Machine words wider than 31 bits are bit vectors: sequences of 0/1,     *)
(* most significant bit first.  A u128 is a sequence of 128 bits, a u64 a  *)
(* sequence of 64 bits, a u32 a sequence of 32 bits.                       *)
(***************************************************************************)
EXTENDS Integers, Sequences, FiniteSets, TLC

\* ------------------------------------------------------------------------
\* Bit vectors
\* ------------------------------------------------------------------------

Pow2(n) == 2 ^ n

\* the function f on 1..n as a sequence
AsSeq(f, n) == SubSeq(f, 1, n)

Zeros(n) == AsSeq([i \in 1..n |-> 0], n)

AllOnes(n) == AsSeq([i \in 1..n |-> 1], n)

\* the low 31 bits of a non-negative integer v, as a bit vector of width w
ToBits(v, w) == AsSeq([i \in 1..w |-> IF w - i > 30 THEN 0 ELSE (v \div Pow2(w - i)) % 2], w)

RECURSIVE BitsToNat(_)
BitsToNat(s) == IF Len(s) = 0 THEN 0 ELSE 2 * BitsToNat(SubSeq(s, 1, Len(s) - 1)) + s[Len(s)]

\* v << n on a word of Len(v) bits: bits shifted out at the top are lost
Shl(v, n) == IF n >= Len(v) THEN Zeros(Len(v)) ELSE SubSeq(v, n + 1, Len(v)) \o Zeros(n)

\* v >> n (logical)
Shr(v, n) == IF n >= Len(v) THEN Zeros(Len(v)) ELSE Zeros(n) \o SubSeq(v, 1, Len(v) - n)

BitOr(v, u) == AsSeq([i \in 1..Len(v) |-> IF v[i] = 1 \/ u[i] = 1 THEN 1 ELSE 0], Len(v))

BitAnd(v, u) == AsSeq([i \in 1..Len(v) |-> IF v[i] = 1 /\ u[i] = 1 THEN 1 ELSE 0], Len(v))

BitXor(v, u) == AsSeq([i \in 1..Len(v) |-> IF v[i] # u[i] THEN 1 ELSE 0], Len(v))

\* `as` between unsigned widths: zero-extend or keep the low w bits
Cast(v, w) ==
    IF Len(v) >= w THEN SubSeq(v, Len(v) - w + 1, Len(v)) ELSE Zeros(w - Len(v)) \o v

\* a + b on u32: the 32-bit sum and the carry out of bit 31
AddU32(a, b) ==
    LET lo == BitsToNat(SubSeq(a, 17, 32)) + BitsToNat(SubSeq(b, 17, 32))
        hi == BitsToNat(SubSeq(a, 1, 16)) + BitsToNat(SubSeq(b, 1, 16)) + lo \div 65536
    IN [sum |-> ToBits(hi % 65536, 16) \o ToBits(lo % 65536, 16), carry |-> hi \div 65536]

\* `as u8`, as a number 0..255
AsU8(v) == BitsToNat(Cast(v, 8))

\* ------------------------------------------------------------------------
\* The byte sink (any std::io::Write).  cap is the number of bytes the sink
\* accepts before write_all returns an error; NoCap is a Vec<u8>.
\* ------------------------------------------------------------------------

NoCap == -1

SinkAccepts(w) == w.cap = NoCap \/ Len(w.sink) < w.cap

\* ------------------------------------------------------------------------
\* BitstreamWriter (src/bitstream.rs)
\*   next_bits : u128, next_bits_length : usize, inner : the sink
\*   err : "ok", "io" (Err returned by the last call) or "panic"
\* ------------------------------------------------------------------------

BitstreamWriter_new(sink, cap) ==
    [next_bits |-> Zeros(128), next_bits_length |-> 0, sink |-> sink, cap |-> cap, err |-> "ok"]

\* Drain taking the low byte of next_bits, whatever is staged below it
RECURSIVE Drain_low(_)
Drain_low(w) ==
    IF w.next_bits_length >= 8
    THEN IF SinkAccepts(w)
         THEN Drain_low([w EXCEPT !.sink = Append(@, AsU8(w.next_bits)),
                                  !.next_bits_length = @ - 8])
         ELSE [w EXCEPT !.err = "io"]
    ELSE w

\* the drain loop of write_bits: while next_bits_length >= 8 { write_all; length -= 8 }
RECURSIVE Drain(_)
Drain(w) ==
    IF w.next_bits_length >= 8
    THEN LET next_byte == AsU8(Shr(w.next_bits, w.next_bits_length - 8))
         IN IF SinkAccepts(w)
            THEN Drain([w EXCEPT !.sink = Append(@, next_byte),
                                 !.next_bits_length = @ - 8])
            ELSE [w EXCEPT !.err = "io"]
    ELSE w

\* the tail of write_bits, len <= 64
Stage(w, bits, len) ==
    Drain([w EXCEPT !.next_bits = BitOr(Shl(@, len), Cast(bits, 128)),
                    !.next_bits_length = @ + len])

\* write_bits that cuts a length above 64 down to 64 without the zero chunks
write_bits_clamp(w, bits, len) == Stage(w, bits, IF len > 64 THEN 64 ELSE len)

RECURSIVE write_bits(_, _, _)
write_bits(w, bits, len) ==
    IF len >= 128
    THEN LET r == write_bits(w, Zeros(64), 64)
         IN IF r.err # "ok" THEN r ELSE write_bits(r, bits, len - 64)
    ELSE IF len > 64
    THEN LET r == write_bits(w, Zeros(64), len - 64)
         IN IF r.err # "ok" THEN r ELSE Stage(r, bits, 64)
    ELSE Stage(w, bits, len)

\* flush that writes a byte also when nothing is staged
flush_always(w) ==
    { IF SinkAccepts(w)
      THEN [w EXCEPT !.sink = Append(@, AsU8(Shl(w.next_bits, 8 - (w.next_bits_length % 8)))),
                     !.next_bits_length = 0, !.err = "ok"]
      ELSE [w EXCEPT !.err = "io"] }

\* flush that leaves next_bits_length as it is
flush_keep(w) ==
    IF w.next_bits_length > 0
    THEN { IF SinkAccepts(w)
           THEN [w EXCEPT !.sink = Append(@, AsU8(Shl(w.next_bits, 8 - (w.next_bits_length % 8)))),
                          !.err = "ok"]
           ELSE [w EXCEPT !.err = "io"] }
    ELSE {[w EXCEPT !.err = "ok"]}

\* flush: the set of outcomes.  8 - next_bits_length underflows when the
\* length exceeds 8: a build with overflow checks panics, a build without
\* wraps the difference and masks the shift amount to 7 bits.
flush(w) ==
    IF w.next_bits_length > 0
    THEN LET shifts == IF w.next_bits_length <= 8
                       THEN {8 - w.next_bits_length}
                       ELSE {-1, (136 - (w.next_bits_length % 128)) % 128}
         IN { IF sh = -1 THEN [w EXCEPT !.err = "panic"]
              ELSE IF SinkAccepts(w)
              THEN [w EXCEPT !.sink = Append(@, AsU8(Shl(w.next_bits, sh))),
                             !.next_bits_length = 0, !.err = "ok"]
              ELSE [w EXCEPT !.err = "io"] : sh \in shifts }
    ELSE {[w EXCEPT !.err = "ok"]}

\* Drop for BitstreamWriter: flush, the error is discarded (a panic is not)
drop(w) == { [o EXCEPT !.err = IF o.err = "panic" THEN "panic" ELSE "ok"] : o \in flush(w) }

\* ------------------------------------------------------------------------
\* The byte source (any std::io::Read over memory): the bytes of head, then
\* `zeros` bytes 0x00, then the bytes of tail.
\* ------------------------------------------------------------------------

Source(head, zeros, tail) == [head |-> head, zeros |-> zeros, tail |-> tail]

SrcLen(s) == Len(s.head) + s.zeros + Len(s.tail)

\* the byte at 0-based position i
SrcByte(s, i) ==
    IF i < Len(s.head) THEN s.head[i + 1]
    ELSE IF i < Len(s.head) + s.zeros THEN 0
    ELSE s.tail[i - Len(s.head) - s.zeros + 1]

\* ------------------------------------------------------------------------
\* Bitstream (src/bitstream.rs), the reader
\*   next_bits : u128, next_bits_length : usize, pos : bytes taken from inner
\* ------------------------------------------------------------------------

Bitstream_new(pos) ==
    [next_bits |-> Zeros(128), next_bits_length |-> 0, pos |-> pos, err |-> "ok"]

\* a fill loop that also takes a byte when exactly n bits are staged
NeedsByte_eager(length, n) == length <= n

\* does the fill loop of next_bits take another byte?
NeedsByte(length, n) == length < n

RECURSIVE Fill(_, _, _)
Fill(s, rd, n) ==
    IF NeedsByte(rd.next_bits_length, n)
    THEN IF rd.pos < SrcLen(s)
         THEN Fill(s, [rd EXCEPT !.next_bits = BitOr(Shl(@, 8), ToBits(SrcByte(s, rd.pos), 128)),
                                 !.next_bits_length = @ + 8,
                                 !.pos = @ + 1], n)
         ELSE [rd EXCEPT !.err = "eof"]
    ELSE rd

\* next_bits: [rd |-> the reader afterwards, val |-> the u64 returned]
next_bits(s, rd, n) ==
    LET f == Fill(s, rd, n)
    IN [rd  |-> f,
        val |-> IF f.err # "ok" THEN Zeros(64)
                ELSE Cast(BitAnd(Shr(f.next_bits, f.next_bits_length - n),
                                 Shr(Cast(AllOnes(64), 128), 64 - n)), 64)]

read_bits(s, rd, n) ==
    LET p == next_bits(s, rd, n)
    IN IF p.rd.err # "ok" THEN p
       ELSE [rd |-> [p.rd EXCEPT !.next_bits_length = @ - n], val |-> p.val]

\* ------------------------------------------------------------------------
\* i32 values as bit vectors
\* ------------------------------------------------------------------------

\* two's complement of an integer in -2^31 .. 2^31-1
I32(v) ==
    AsSeq([i \in 1..32 |-> IF i = 1 THEN (IF v < 0 THEN 1 ELSE 0) ELSE (v \div Pow2(32 - i)) % 2], 32)

I32ToInt(b) ==
    LET low == BitsToNat(SubSeq(b, 2, 32))
    IN IF b[1] = 1 THEN (low - 1073741824) - 1073741824 ELSE low

\* arithmetic >> on a signed word
Sar(v, n) == AsSeq([i \in 1..Len(v) |-> IF i - n >= 1 THEN v[i - n] ELSE v[1]], Len(v))

\* ------------------------------------------------------------------------
\* src/codec.rs
\* ------------------------------------------------------------------------

Min(x, y) == IF x <= y THEN x ELSE y
Max(x, y) == IF x >= y THEN x ELSE y
Abs(x) == IF x < 0 THEN -x ELSE x

fixed_prediction(a, b, c) ==
    LET min_a_b == Min(a, b)
        max_a_b == Max(a, b)
    IN IF c >= max_a_b THEN min_a_b
       ELSE IF c <= min_a_b THEN max_a_b
       ELSE a + b - c

RECURSIVE KLoop(_, _)
KLoop(kk, activity_level) ==
    IF 3 * Pow2(kk) < activity_level THEN KLoop(kk + 1, activity_level) ELSE kk

k(a, b, c, d) == KLoop(0, Abs(d - b) + Abs(b - c) + Abs(c - a))

\* ((x >> 30) ^ (2 * x)) as u32, for |x| < 2^30
Fold(x) == BitXor(Sar(I32(x), 30), I32(2 * x))

\* Unfold without the sign mask
Unfold_nosign(x) == I32ToInt(Sar(x, 1))

\* (x as i32 >> 1) ^ ((x << 31) as i32 >> 31), x a u32
Unfold(x) == I32ToInt(BitXor(Sar(x, 1), Sar(Shl(x, 31), 31)))

\* (1 << k) - 1 as a u32
LowMask(kk) == AsSeq([i \in 1..32 |-> IF i > 32 - kk THEN 1 ELSE 0], 32)

\* the length of the unary prefix: (high_bits + 1) as usize
PrefixLen(high_bits) == BitsToNat(high_bits) + 1

encode_value(kk, x, w) ==
    LET u == Fold(x)
        high_bits == Shr(u, kk)
        r == write_bits(w, ToBits(1, 64), PrefixLen(high_bits))
    IN IF r.err # "ok" THEN r
       ELSE write_bits(r, Cast(BitAnd(u, LowMask(kk)), 64), kk)

\* the value decode_value returns once its loop has counted high_bits zeros
\* (a u32) and read_bits(k) has returned low
DecodedValue(high_bits, kk, low) ==
    Unfold(BitOr(Shl(high_bits, kk), Cast(low, 32)))

\* ------------------------------------------------------------------------
\* Plane and RGB48Frame (src/frame.rs).  A plane is a view of the frame's
\* data starting at offset off (the slice &data[plane..]).
\* ------------------------------------------------------------------------

Plane(data, off, width, height, n_planes) ==
    [data |-> data, off |-> off, width |-> width, height |-> height,
     sample_stride |-> n_planes, row_stride |-> n_planes * width]

\* data[i] of the plane's slice
At(plane, i) == plane.data[plane.off + i + 1]

sample(plane, col, row) == At(plane, row * plane.row_stride + col * plane.sample_stride)

planes(F) ==
    LET n_planes == Len(F.data) \div (F.width * F.height)
    IN [p \in 1..n_planes |-> Plane(F.data, p - 1, F.width, F.height, n_planes)]

\* d of the sample at (row, col)
UpRight(plane, row, col) ==
    IF row > 0 /\ col + 1 < plane.width
    THEN At(plane, (row - 1) * plane.row_stride + (col + 1) * plane.sample_stride)
    ELSE 0

\* no reassignment of b at the end of a row
RowSeed_stale(plane, row, b) == b

\* b after the row `row` is finished (b is the value the scan left in b)
RowSeed(plane, row, b) == At(plane, row * plane.row_stride)

\* ------------------------------------------------------------------------
\* Codec::encode (src/codec.rs): the raster scan.  st.w is the writer,
\* st.ctx records the context <<a, b, c, d>> used at each sample.
\* ------------------------------------------------------------------------

RECURSIVE EncodeScan(_, _, _, _, _, _, _)
EncodeScan(plane, row, col, a, b, c, st) ==
    IF row >= plane.height THEN st
    ELSE IF col >= plane.width
    THEN EncodeScan(plane, row + 1, 0, 0, RowSeed(plane, row, b), 0, st)
    ELSE LET x == At(plane, row * plane.row_stride + col * plane.sample_stride)
             d == UpRight(plane, row, col)
             prediction == fixed_prediction(a, b, c)
             prediction_residual == x - prediction
             r == encode_value(k(a, b, c, d), prediction_residual, st.w)
             st2 == [w |-> r, ctx |-> Append(st.ctx, <<a, b, c, d>>)]
         IN IF r.err # "ok" THEN st2
            ELSE EncodeScan(plane, row, col + 1, x, d, b, st2)

\* the outcomes of Codec::encode(plane, dest): the writer after the scan, the
\* flush and the drop; err is what the call returns
Codec_encode(plane, sink, cap) ==
    LET st == EncodeScan(plane, 0, 0, 0, 0, 0,
                         [w |-> BitstreamWriter_new(sink, cap), ctx |-> << >>])
    IN IF st.w.err # "ok"
       THEN { [w |-> [o EXCEPT !.err = IF o.err = "panic" THEN "panic" ELSE "io"],
               ctx |-> st.ctx] : o \in drop(st.w) }
       ELSE UNION { { [w |-> [o EXCEPT !.err = IF o.err = "panic" THEN "panic" ELSE f.err],
                       ctx |-> st.ctx] : o \in drop(f) } : f \in flush(st.w) }

\* the header block of RGB48Frame::encode: write_bits(planes - 1, 2), flush,
\* and the drop of the header writer at the end of the block
EncodeHeader(F, sink, cap) ==
    LET r == write_bits(BitstreamWriter_new(sink, cap), ToBits(Len(planes(F)) - 1, 64), 2)
    IN IF r.err # "ok"
       THEN { [o EXCEPT !.err = IF o.err = "panic" THEN "panic" ELSE "io"] : o \in drop(r) }
       ELSE UNION { { [o EXCEPT !.err = IF o.err = "panic" THEN "panic" ELSE f.err]
                      : o \in drop(f) } : f \in flush(r) }

\* ------------------------------------------------------------------------
\* Bounds and inputs
\* ------------------------------------------------------------------------

MaxWrites == 3
MaxFlush == 2
MaxCap == 2
MaxX == 70
MaxPre == 5
MaxW == 2
MaxH == 2
MaxCells == 4
MaxSample == 3
MaxStream == 3

\* the (bits, n) pairs given to write_bits, n <= 64 and bits < 2^n
WriteInputs ==
    { [n |-> 0, bits |-> Zeros(64)],
      [n |-> 1, bits |-> ToBits(1, 64)],
      [n |-> 1, bits |-> Zeros(64)],
      [n |-> 5, bits |-> ToBits(21, 64)],
      [n |-> 8, bits |-> ToBits(255, 64)],
      [n |-> 9, bits |-> ToBits(1, 64)],
      [n |-> 64, bits |-> AllOnes(64)],
      [n |-> 64, bits |-> AsSeq([i \in 1..64 |-> i % 2], 64)] }

Caps == {NoCap} \cup (0..MaxCap)

\* every k with the small x, and the extremes of x where k keeps the prefix short
ValueInputs ==
    [k : 0..30, x : (-MaxX)..MaxX, pre : {0, MaxPre}]
    \cup [k : 10..30, x : {-65535, -38368, 38369, 65535}, pre : {0, MaxPre}]

Shapes ==
    { s \in [width : 1..MaxW, height : 1..MaxH, n_planes : 1..4] :
        s.width * s.height * s.n_planes <= MaxCells }

\* larger frames with patterned data: rows, columns and planes together
Patterned ==
    { [data |-> [i \in 1..(s.width * s.height * s.n_planes) |-> ((i * i * m) \div 3) % (MaxSample + 1)],
       width |-> s.width, height |-> s.height]
      : s \in [width : {2, 3}, height : {2, 3}, n_planes : {1, 3, 4}], m \in {1, 2} }
    \cup { [data |-> <<40, 0, 0, 40>>, width |-> 2, height |-> 2],
           [data |-> <<10, 20, 30, 40>>, width |-> 2, height |-> 2],
           [data |-> <<1000, 0, 65, 1000>>, width |-> 2, height |-> 2],
           [data |-> <<300, 300, 300, 300, 300, 300>>, width |-> 3, height |-> 2] }

Frames ==
    UNION { { [data |-> d, width |-> s.width, height |-> s.height]
              : d \in [1..(s.width * s.height * s.n_planes) -> 0..MaxSample] } : s \in Shapes }
    \cup Patterned

Junks == { << >>, <<255, 0>> }

FrameCaps == {NoCap, 1}

\* byte sources given to RGB48Frame::decode directly: short ones of any
\* content, and a header byte followed by 2^29 zero bytes (2^32 zero bits)
Streams ==
    { Source(AsSeq(h, Len(h)), 0, << >>) :
        h \in UNION { [1..n -> {0, 64, 128, 255}] : n \in 0..MaxStream } }
    \cup { Source(<<0>>, 536870912, t) : t \in { << >>, <<128>> } }

StreamDims == { [width |-> 1, height |-> 2], [width |-> 2, height |-> 1] }

\* ------------------------------------------------------------------------
\* State
\* ------------------------------------------------------------------------

VARIABLES
    frame,      \* the RGB48Frame given to encode
    junk,       \* bytes that follow the encoding in the decoder's source
    w,          \* the BitstreamWriter in use (w.sink is the byte sink)
    wopen,      \* the writer has not been dropped
    hist,       \* the calls made on the writer: "write", "flush", "drop"
    failed,     \* some call on the writer returned an error
    oplog,      \* the (bits, n) pairs written, in order
    got,        \* the values read back, in order
    vin,        \* the (k, x) given to encode_value
    epc,        \* RGB48Frame::encode: 0 header, p plane p, n_planes+1 done, -1 failed
    marks,      \* sink length after the header and after each plane
    ectx,       \* per plane, the contexts the encoder used
    src,        \* the decoder's byte source
    dim,        \* width and height given to decode
    rd,         \* the Bitstream in use (rd.pos is the source position)
    dpc,        \* the decoder's position
    dec,        \* the frame being decoded
    scan,       \* Codec::decode's locals: plane, row, col, a, b, c
    dk,         \* decode_value's k
    high_bits,  \* decode_value's counter
    dres,       \* decode_value's result
    dctx,       \* per plane, the contexts the decoder used
    starts      \* source position at the start of each plane decode

vars == <<frame, junk, w, wopen, hist, failed, oplog, got, vin, epc, marks, ectx,
          src, dim, rd, dpc, dec, scan, dk, high_bits, dres, dctx, starts>>

wvars == <<w, wopen, hist, failed, oplog>>
evars == <<frame, junk, epc, marks, ectx>>
dvars == <<dec, scan, dk, high_bits, dres, dctx, starts>>

NoFrame == [data |-> << >>, width |-> 0, height |-> 0]
NoDec == [data |-> << >>, n_planes |-> 0]
NoScan == [plane |-> 0, row |-> 0, col |-> 0, a |-> 0, b |-> 0, c |-> 0]

WriterIdle ==
    /\ w = BitstreamWriter_new(<< >>, NoCap) /\ wopen = FALSE /\ hist = << >>
    /\ failed = FALSE /\ oplog = << >>

EncoderIdle ==
    /\ frame = NoFrame /\ junk = << >> /\ epc = -1 /\ marks = << >> /\ ectx = << >>

DecoderIdle ==
    /\ dec = NoDec /\ scan = NoScan /\ dk = 0 /\ high_bits = Zeros(32) /\ dres = 0
    /\ dctx = << >> /\ starts = << >>

\* ------------------------------------------------------------------------
\* The bitstream on its own: write_bits*, flush*, drop, then read_bits*
\* ------------------------------------------------------------------------

InitW ==
    /\ \E cap \in Caps : w = BitstreamWriter_new(<< >>, cap)
    /\ wopen = TRUE /\ hist = << >> /\ failed = FALSE /\ oplog = << >> /\ got = << >>
    /\ vin = [k |-> 0, x |-> 0, pre |-> 0]
    /\ EncoderIdle /\ DecoderIdle
    /\ src = Source(<< >>, 0, << >>) /\ dim = [width |-> 0, height |-> 0]
    /\ rd = Bitstream_new(0) /\ dpc = "idle"

Count(h, op) == Cardinality({i \in 1..Len(h) : h[i] = op})

\* write_bits(bits, n); a caller that got an error makes no further write
W_write ==
    /\ wopen /\ w.err = "ok" /\ Count(hist, "flush") = 0
    /\ Len(oplog) < MaxWrites
    /\ \E in \in WriteInputs :
          /\ w' = write_bits(w, in.bits, in.n)
          /\ oplog' = Append(oplog, in)
    /\ hist' = Append(hist, "write")
    /\ failed' = (failed \/ w'.err # "ok")
    /\ UNCHANGED <<wopen, got, vin, src, dim, rd, dpc>>
    /\ UNCHANGED evars /\ UNCHANGED dvars

\* flush()
W_flush ==
    /\ wopen /\ w.err # "panic" /\ Count(hist, "flush") < MaxFlush
    /\ \E o \in flush(w) : w' = o
    /\ hist' = Append(hist, "flush")
    /\ failed' = (failed \/ w'.err # "ok")
    /\ UNCHANGED <<wopen, oplog, got, vin, src, dim, rd, dpc>>
    /\ UNCHANGED evars /\ UNCHANGED dvars

\* the writer goes out of scope; a reader is opened over the sink's bytes
W_drop ==
    /\ wopen /\ w.err # "panic"
    /\ \E o \in drop(w) : w' = o
    /\ wopen' = FALSE
    /\ hist' = Append(hist, "drop")
    /\ failed' = (failed \/ w'.err # "ok")
    /\ src' = Source(w'.sink, 0, << >>)
    /\ rd' = Bitstream_new(0)
    /\ UNCHANGED <<oplog, got, vin, dim, dpc>>
    /\ UNCHANGED evars /\ UNCHANGED dvars

\* read_bits(n) for the next n of the write log
R_read ==
    /\ ~wopen /\ w.err # "panic" /\ rd.err = "ok"
    /\ Len(got) < Len(oplog)
    /\ LET p == read_bits(src, rd, oplog[Len(got) + 1].n)
       IN /\ rd' = p.rd
          /\ got' = IF p.rd.err = "ok" THEN Append(got, p.val) ELSE got
    /\ UNCHANGED <<vin, src, dim, dpc>>
    /\ UNCHANGED wvars /\ UNCHANGED evars /\ UNCHANGED dvars

NextW == W_write \/ W_flush \/ W_drop \/ R_read

SpecW == InitW /\ [][NextW]_vars

\* ------------------------------------------------------------------------
\* encode_value / decode_value on their own (test_encode_decode_value).  The
\* writer has already written vin.pre bits and the reader has read them.
\* ------------------------------------------------------------------------

InitV ==
    /\ vin \in ValueInputs
    /\ w = write_bits(BitstreamWriter_new(<< >>, NoCap), ToBits(1, 64), vin.pre)
    /\ wopen = TRUE /\ hist = << >> /\ failed = FALSE /\ oplog = << >> /\ got = << >>
    /\ EncoderIdle /\ DecoderIdle
    /\ src = Source(<< >>, 0, << >>) /\ dim = [width |-> 0, height |-> 0]
    /\ rd = Bitstream_new(0) /\ dpc = "idle"

\* encode_value(k, x, dest)
V_encode ==
    /\ wopen /\ hist = << >>
    /\ w' = encode_value(vin.k, vin.x, w)
    /\ hist' = Append(hist, "write")
    /\ failed' = (failed \/ w'.err # "ok")
    /\ UNCHANGED <<wopen, oplog, got, vin, src, dim, rd, dpc>>
    /\ UNCHANGED evars /\ UNCHANGED dvars

\* decode_value(k, source) is called on a reader past the first vin.pre bits
V_call ==
    /\ ~wopen /\ dpc = "idle" /\ Count(hist, "write") = 1
    /\ rd' = read_bits(src, rd, vin.pre).rd
    /\ dpc' = "unary"
    /\ dk' = vin.k
    /\ high_bits' = Zeros(32)
    /\ UNCHANGED <<got, vin, src, dim, dec, scan, dres, dctx, starts>>
    /\ UNCHANGED wvars /\ UNCHANGED evars

\* The loop `while source.read_bits(1)? == 0 { high_bits += 1 }` over whole
\* zero bytes: with nothing staged and 2^j zero bytes next in the source,
\* 8 * 2^j turns of the loop each read a zero bit and add one to high_bits.
\* RunOk(j): the source has the bytes and the additions stay below 2^32.
RunOk(j) ==
    /\ rd.next_bits_length = 0
    /\ rd.pos >= Len(src.head)
    /\ rd.pos + Pow2(j) <= Len(src.head) + src.zeros
    /\ AddU32(high_bits, Shl(ToBits(1, 32), j + 3)).carry = 0

RunLengths == 0..28

\* decode_value: 8 * 2^j turns of the loop, for the largest j with RunOk(j)
DV_run ==
    /\ dpc = "unary"
    /\ \E j \in RunLengths :
          /\ RunOk(j)
          /\ \A i \in RunLengths : i > j => ~RunOk(i)
          /\ rd' = [rd EXCEPT !.pos = @ + Pow2(j), !.next_bits = Shl(@, IF j >= 4 THEN 128 ELSE 8 * Pow2(j))]
          /\ high_bits' = AddU32(high_bits, Shl(ToBits(1, 32), j + 3)).sum
    /\ UNCHANGED <<got, vin, src, dim, dec, scan, dk, dres, dctx, starts, dpc>>
    /\ UNCHANGED wvars /\ UNCHANGED evars

\* decode_value: one turn of `while source.read_bits(1)? == 0 { high_bits += 1 }`.
\* high_bits += 1 at 2^32 - 1 panics in a build with overflow checks and wraps
\* to 0 in a build without.
DV_bit ==
    /\ dpc = "unary"
    /\ \A j \in RunLengths : ~RunOk(j)
    /\ LET p == read_bits(src, rd, 1)
           inc == AddU32(high_bits, ToBits(1, 32))
       IN IF p.rd.err # "ok"
          THEN rd' = p.rd /\ dpc' = "eof" /\ high_bits' = high_bits
          ELSE IF p.val = Zeros(64)
          THEN \E build \in IF inc.carry = 1 THEN {"checked", "wrapping"} ELSE {"wrapping"} :
                  IF build = "checked"
                  THEN rd' = p.rd /\ dpc' = "panic" /\ high_bits' = high_bits
                  ELSE rd' = p.rd /\ dpc' = "unary" /\ high_bits' = inc.sum
          ELSE rd' = p.rd /\ dpc' = "low" /\ high_bits' = high_bits
    /\ UNCHANGED <<got, vin, src, dim, dec, scan, dk, dres, dctx, starts>>
    /\ UNCHANGED wvars /\ UNCHANGED evars

\* decode_value: read_bits(k), the reconstruction and the return
DV_low ==
    /\ dpc = "low"
    /\ LET p == read_bits(src, rd, dk)
       IN /\ rd' = p.rd
          /\ IF p.rd.err # "ok"
             THEN dpc' = "eof" /\ dres' = dres
             ELSE dpc' = "ret" /\ dres' = DecodedValue(high_bits, dk, p.val)
    /\ UNCHANGED <<got, vin, src, dim, dec, scan, dk, high_bits, dctx, starts>>
    /\ UNCHANGED wvars /\ UNCHANGED evars

NextV == V_encode \/ W_flush \/ W_drop \/ V_call \/ DV_bit \/ DV_low

SpecV == InitV /\ [][NextV]_vars

\* ------------------------------------------------------------------------
\* RGB48Frame::encode and RGB48Frame::decode (src/frame.rs)
\* ------------------------------------------------------------------------

InitF ==
    /\ frame \in Frames
    /\ junk \in Junks
    /\ \E cap \in FrameCaps : w = BitstreamWriter_new(<< >>, cap)
    /\ wopen = FALSE /\ hist = << >> /\ failed = FALSE /\ oplog = << >> /\ got = << >>
    /\ vin = [k |-> 0, x |-> 0, pre |-> 0]
    /\ epc = 0 /\ marks = << >> /\ ectx = << >>
    /\ DecoderIdle
    /\ src = Source(<< >>, 0, << >>) /\ dim = [width |-> 0, height |-> 0]
    /\ rd = Bitstream_new(0) /\ dpc = "idle"

\* encode: the header block
F_header ==
    /\ epc = 0
    /\ \E o \in EncodeHeader(frame, w.sink, w.cap) :
          /\ w' = o
          /\ epc' = IF o.err = "ok" THEN 1 ELSE -1
          /\ marks' = Append(marks, Len(o.sink))
    /\ failed' = (failed \/ w'.err # "ok")
    /\ UNCHANGED <<frame, junk, ectx, wopen, hist, oplog, got, vin, src, dim, rd, dpc>>
    /\ UNCHANGED dvars

\* encode: C::encode(&plane, &mut dest) for the next plane of self.planes()
F_plane ==
    /\ epc >= 1 /\ epc <= Len(planes(frame))
    /\ \E o \in Codec_encode(planes(frame)[epc], w.sink, w.cap) :
          /\ w' = o.w
          /\ ectx' = Append(ectx, o.ctx)
          /\ epc' = IF o.w.err = "ok" THEN epc + 1 ELSE -1
          /\ marks' = Append(marks, Len(o.w.sink))
    /\ failed' = (failed \/ w'.err # "ok")
    /\ UNCHANGED <<frame, junk, wopen, hist, oplog, got, vin, src, dim, rd, dpc>>
    /\ UNCHANGED dvars

\* decode is called on the encoded bytes followed by junk
F_open ==
    /\ epc = Len(planes(frame)) + 1 /\ dpc = "idle"
    /\ src' = Source(w.sink, 0, junk)
    /\ dim' = [width |-> frame.width, height |-> frame.height]
    /\ dpc' = "header"
    /\ UNCHANGED <<got, vin, rd>>
    /\ UNCHANGED wvars /\ UNCHANGED evars /\ UNCHANGED dvars

\* decode: the header block and the allocation of ret
FD_header ==
    /\ dpc = "header"
    /\ LET p == read_bits(src, Bitstream_new(0), 2)
           n_planes == BitsToNat(Cast(p.val, 8)) + 1
       IN /\ rd' = p.rd
          /\ IF p.rd.err # "ok"
             THEN dpc' = "eof" /\ dec' = dec
             ELSE /\ dpc' = "plane"
                  /\ dec' = [data |-> Zeros(dim.width * dim.height * n_planes),
                             n_planes |-> n_planes]
    /\ scan' = NoScan
    /\ UNCHANGED <<got, vin, src, dim, dk, high_bits, dres, dctx, starts>>
    /\ UNCHANGED wvars /\ UNCHANGED evars

\* the view given to C::decode for plane p (0-based)
View(p) == Plane(dec.data, p, dim.width, dim.height, dec.n_planes)

\* Codec::decode: Bitstream::new, the loop entry and the call of decode_value
\* for the first sample
FD_plane ==
    /\ dpc = "plane"
    /\ rd' = Bitstream_new(rd.pos)
    /\ starts' = Append(starts, rd.pos)
    /\ dctx' = Append(dctx, << >>)
    /\ scan' = [scan EXCEPT !.row = 0, !.col = 0, !.a = 0, !.b = 0, !.c = 0]
    /\ dk' = k(0, 0, 0, UpRight(View(scan.plane), 0, 0))
    /\ high_bits' = Zeros(32)
    /\ dpc' = "unary"
    /\ UNCHANGED <<got, vin, src, dim, dec, dres>>
    /\ UNCHANGED wvars /\ UNCHANGED evars

\* the residual stored without the prediction
WrapU16_residual(prediction, residual) == residual % 65536

\* (prediction + prediction_residual) as u16 when the i32 sum wraps
WrapU16(prediction, residual) == ((prediction % 65536) + (residual % 65536)) % 65536

\* does prediction + prediction_residual leave the i32 range?
SumOverflows(prediction, residual) ==
    IF prediction >= 0 THEN residual > 2147483647 - prediction
    ELSE residual < (-2147483647 - 1) - prediction

\* Codec::decode: the rest of the loop body after decode_value returned, the
\* row and plane ends, and the call of decode_value for the next sample
PD_store ==
    /\ dpc = "ret" /\ dec # NoDec
    /\ LET view == View(scan.plane)
           d == UpRight(view, scan.row, scan.col)
           prediction == fixed_prediction(scan.a, scan.b, scan.c)
           x == WrapU16(prediction, dres)
           i == scan.row * view.row_stride + scan.col * view.sample_stride
           data2 == [dec.data EXCEPT ![scan.plane + i + 1] = x]
           view2 == [view EXCEPT !.data = data2]
           rowEnd == scan.col + 1 >= dim.width
           planeEnd == rowEnd /\ scan.row + 1 >= dim.height
           scan2 == IF rowEnd
                    THEN [scan EXCEPT !.row = @ + 1, !.col = 0, !.a = 0,
                                      !.b = RowSeed(view2, scan.row, d), !.c = 0]
                    ELSE [scan EXCEPT !.col = @ + 1, !.a = x, !.b = d, !.c = scan.b]
       IN \E build \in IF SumOverflows(prediction, dres) THEN {"checked", "wrapping"}
                       ELSE {"wrapping"} :
            IF build = "checked"
            THEN /\ dpc' = "panic"
                 /\ UNCHANGED <<dec, scan, dk, high_bits, dctx>>
            ELSE /\ dec' = [dec EXCEPT !.data = data2]
                 /\ dctx' = [dctx EXCEPT ![scan.plane + 1] =
                                Append(@, <<scan.a, scan.b, scan.c, d>>)]
                 /\ high_bits' = Zeros(32)
                 /\ IF planeEnd
                    THEN /\ scan' = [NoScan EXCEPT !.plane = scan.plane + 1]
                         /\ dk' = 0
                         /\ dpc' = IF scan.plane + 1 < dec.n_planes THEN "plane" ELSE "done"
                    ELSE /\ scan' = scan2
                         /\ dk' = k(scan2.a, scan2.b, scan2.c,
                                    UpRight(view2, scan2.row, scan2.col))
                         /\ dpc' = "unary"
    /\ UNCHANGED <<got, vin, src, dim, rd, dres, starts>>
    /\ UNCHANGED wvars /\ UNCHANGED evars

NextF == F_header \/ F_plane \/ F_open \/ FD_header \/ FD_plane \/ DV_bit \/ DV_low \/ PD_store

SpecF == InitF /\ [][NextF]_vars

\* RGB48Frame::decode on byte sources of any content
InitD ==
    /\ src \in Streams
    /\ dim \in StreamDims
    /\ dpc = "header"
    /\ WriterIdle /\ EncoderIdle /\ DecoderIdle
    /\ got = << >> /\ vin = [k |-> 0, x |-> 0, pre |-> 0]
    /\ rd = Bitstream_new(0)

NextD == FD_header \/ FD_plane \/ DV_bit \/ DV_run \/ DV_low \/ PD_store

SpecD == InitD /\ [][NextD]_vars

\* ------------------------------------------------------------------------
\* Properties
\* ------------------------------------------------------------------------

Last(h) == h[Len(h)]

NPlanes == Len(planes(frame))

RECURSIVE SumN(_)
SumN(log) == IF Len(log) = 0 THEN 0 ELSE log[Len(log)].n + SumN(SubSeq(log, 1, Len(log) - 1))

RECURSIVE ByteBits(_)
ByteBits(bytes) ==
    IF Len(bytes) = 0 THEN << >>
    ELSE ByteBits(SubSeq(bytes, 1, Len(bytes) - 1)) \o ToBits(bytes[Len(bytes)], 8)

\* every bit the writer has accepted so far: the sink's bytes, then the staged bits
Emitted(wr) ==
    ByteBits(wr.sink) \o SubSeq(wr.next_bits, 128 - wr.next_bits_length + 1, 128)

ZigZag(x) == IF x >= 0 THEN 2 * x ELSE -2 * x - 1

\* C1: decode(encode(F), F.width, F.height) succeeds and returns F: the same
\* plane count, dimensions and samples, whatever follows the encoding.
FrameRoundTrip ==
    /\ dpc \notin {"eof", "panic"}
    /\ dpc = "done" =>
          /\ dec.n_planes = NPlanes
          /\ dim.width = frame.width /\ dim.height = frame.height
          /\ Len(dec.data) = Len(frame.data)
          /\ \A i \in 1..Len(frame.data) : dec.data[i] = frame.data[i]

FrameRoundTripWitness ==
    /\ dpc = "done" /\ NPlanes = 3 /\ frame.width >= 2 /\ frame.height >= 2
    /\ junk # << >> /\ \E i \in 1..Len(frame.data) : frame.data[i] # 0

\* C2: decode_value(k) on the flushed bytes of encode_value(k, x) returns x.
EntropyRoundTrip ==
    /\ dpc \notin {"eof", "panic"}
    /\ dpc = "ret" => dres = vin.x

EntropyRoundTripWitness == dpc = "ret" /\ vin.k = 30 /\ vin.x < -60 /\ dres < -60

\* C3: after writes of n_i bits and a flush into a sink that takes every
\* byte, the sink holds ceil(sum n_i / 8) bytes, and read_bits(n_i) in the
\* same order returns the bits written.
BitstreamRoundTrip ==
    (w.cap = NoCap /\ hist # << >> /\ Last(hist) \in {"flush", "drop"}) =>
        /\ Len(w.sink) = (SumN(oplog) + 7) \div 8
        /\ rd.err = "ok"
        /\ \A i \in 1..Len(got) : got[i] = oplog[i].bits

BitstreamRoundTripWitness ==
    /\ w.cap = NoCap /\ ~wopen /\ Len(oplog) >= 3 /\ Len(got) = Len(oplog)
    /\ SumN(oplog) % 8 # 0
    /\ \E i \in 1..Len(oplog) : oplog[i].n = 64
    /\ \E i \in 1..Len(oplog) : oplog[i].n = 5

RECURSIVE Concat(_)
Concat(ss) == IF Len(ss) = 0 THEN << >> ELSE Concat(SubSeq(ss, 1, Len(ss) - 1)) \o ss[Len(ss)]

\* the bytes Codec::encode produces for plane p on an empty Vec
PlaneStream(p) == (CHOOSE o \in Codec_encode(planes(frame)[p], << >>, NoCap) : TRUE).w.sink

\* C4: the encoding is one header byte, (P-1) in its top two bits and zero in
\* the low six, followed by the plane streams in plane order.
HeaderAndPlanes ==
    epc = NPlanes + 1 =>
        /\ Len(w.sink) >= 1
        /\ w.sink[1] \div 64 = NPlanes - 1
        /\ w.sink[1] % 64 = 0
        /\ w.sink = <<w.sink[1]>> \o Concat([p \in 1..NPlanes |-> PlaneStream(p)])

HeaderAndPlanesWitness ==
    /\ epc = NPlanes + 1 /\ NPlanes = 4 /\ frame.width * frame.height >= 4
    /\ w.sink[1] = 192

\* C5: a flush with nothing staged writes no byte: after a flush that
\* succeeded, a further flush or the drop leaves the sink as it is.
FlushIdempotent ==
    [][ (/\ hist' # hist
         /\ Last(hist') \in {"flush", "drop"}
         /\ \/ w.next_bits_length = 0
            \/ (hist # << >> /\ Last(hist) = "flush" /\ w.err = "ok"))
        => w'.sink = w.sink ]_vars

FlushIdempotentWitness ==
    /\ Len(hist) >= 3 /\ hist[Len(hist) - 1] = "flush" /\ Last(hist) \in {"flush", "drop"}
    /\ ~failed /\ SumN(oplog) % 8 # 0

\* C6: the header read takes one byte, each plane decode starts where the
\* plane's stream starts, and no byte after the encoding is taken.
ByteExact ==
    /\ dpc # "idle" => rd.pos <= Len(w.sink)
    /\ \A p \in 1..Len(starts) : starts[p] = marks[p]
    /\ Len(starts) >= 1 => starts[1] = 1
    /\ dpc = "done" => rd.pos = Len(w.sink)

ByteExactWitness ==
    /\ dpc = "done" /\ junk # << >> /\ NPlanes >= 2 /\ Len(starts) = NPlanes
    /\ Len(w.sink) > NPlanes + 1

\* C7: decode of any byte source ends in UnexpectedEof or in a frame of
\* width * height * P samples in 0..65535; nothing else can happen.
DecodeOutcomes ==
    /\ dpc # "panic"
    /\ dpc = "done" =>
          /\ Len(dec.data) = dim.width * dim.height * dec.n_planes
          /\ \A i \in 1..Len(dec.data) : dec.data[i] \in 0..65535

\* C8: write_bits(1, h + 1) appends h zero bits and then a one bit, also for
\* h + 1 > 64 and h + 1 >= 128, and decode_value's loop counts h zeros.
UnaryPrefix ==
    LET h == ZigZag(vin.x) \div Pow2(vin.k)
    IN /\ Count(hist, "write") = 1 =>
            LET e == Emitted(w)
            IN /\ Len(e) >= vin.pre + h + 1
               /\ \A i \in 1..h : e[vin.pre + i] = 0
               /\ e[vin.pre + h + 1] = 1
       /\ hist = <<"write">> => Len(Emitted(w)) = vin.pre + h + 1 + vin.k
       /\ dpc \in {"low", "ret"} => BitsToNat(high_bits) = h

UnaryPrefixWitness == dpc = "low" /\ BitsToNat(high_bits) >= 128 /\ vin.pre > 0

\* the neighbour at (col, row) of a plane, 0 outside the plane
Neighbour(plane, col, row) ==
    IF col >= 0 /\ col < plane.width /\ row >= 0 /\ row < plane.height
    THEN sample(plane, col, row) ELSE 0

\* the context of the i-th sample (1-based) of the raster scan
ContextAt(plane, i) ==
    LET row == (i - 1) \div plane.width
        col == (i - 1) % plane.width
    IN <<Neighbour(plane, col - 1, row), Neighbour(plane, col, row - 1),
         Neighbour(plane, col - 1, row - 1), Neighbour(plane, col + 1, row - 1)>>

\* C9: at every sample the encoder's context is a = left, b = above,
\* c = above-left, d = above-right, 0 outside the plane, and the decoder's
\* context is the encoder's.
ContextNeighbours ==
    /\ \A p \in 1..Len(ectx) : \A i \in 1..Len(ectx[p]) :
          ectx[p][i] = ContextAt(planes(frame)[p], i)
    /\ \A p \in 1..Len(dctx) : \A i \in 1..Len(dctx[p]) :
          dctx[p][i] = ectx[p][i]

ContextNeighboursWitness ==
    /\ dpc = "done" /\ frame.data = <<10, 20, 30, 40>>
    /\ dctx[1][3] = <<0, 10, 0, 20>>

\* C10: when write_bits has returned, with or without an error, at most 7
\* bits are staged, and no flush faults.
StagingBelowByte ==
    /\ (hist # << >> /\ Last(hist) = "write") => w.next_bits_length <= 7
    /\ w.err # "panic"

====
